---------------------------- MODULE Spec2Model ----------------------------
(***************************************************************************)
(* Manimancer front end: the AnimationGenerator component (prompt form,    *)
(* /generate-stream request, SSE read loop), the HomeContent page (history *)
(* and its localStorage copy) and the Dodo webhook route.                  *)
(*                                                                         *)
(* Strings that may be null or undefined in the TypeScript are modelled by *)
(* the sentinel strings "null" and "undefined"; nullable objects are       *)
(* sequences of length 0 (null) or 1.                                      *)
(***************************************************************************)
EXTENDS Integers, Sequences, FiniteSets, TLC

\* ------------------------------------------------------------------ bounds
\* usage fetches that may be outstanding at once (further ones coalesce)
MaxPendingUsage == 1
\* lines the server writes to one /generate-stream response
MaxEmit == 2
\* getUserChats calls that may be outstanding at once (further ones coalesce)
MaxPendingHistory == 1
\* items the history may hold
MaxHistory == 2

\* deleteChat calls awaiting their response
MaxPendingDeletes == 1

\* webhook deliveries followed
MaxDeliveries == 3

\* pushes to window.adsbygoogle followed
MaxAdPushes == 2

\* runs of the payment effect in one page load
MaxRefresh == 2

\* --------------------------------------------------------------- constants
\* handleGenerate invocations are followed one at a time: the model does not
\* start a second invocation while one is still awaiting its response or
\* reading its stream
Slots == {1}

\* the single signed-in user of the browser session
UserId == "u1"

\* prompts the user may type: empty, whitespace only, a real prompt
Prompts == {"", " ", "a"}

\* AnimationGenerator.tsx:96
lengths == <<"Medium (15s)", "Long (1m)", "Deep Dive (2m)", "Extended (5m)">>

\* AnimationGenerator.tsx:43-47 (cost in half credits is not used by the UI)
RESOLUTIONS ==
    << [id |-> "720p",  minTier |-> "free"],
       [id |-> "1080p", minTier |-> "basic"],
       [id |-> "4k",    minTier |-> "basic"] >>

\* AnimationGenerator.tsx:101
tierOrder == <<"free", "basic", "pro">>

\* usage documents GET /usage/{id} may return
UsageDocs ==
    { [tier |-> "free",  basic_credits |-> 0],
      [tier |-> "free",  basic_credits |-> 1],
      [tier |-> "basic", basic_credits |-> 0],
      [tier |-> "pro",   basic_credits |-> 0] }

VARIABLES
    isLoaded, isSignedIn,       \* Clerk useUser()
    prompt, length, resolution, \* AnimationGenerator form state
    isDropdownOpen, isResolutionDropdownOpen,
    loading, videoUrl, code, error, currentProgress,
    usage,                      \* <<>> (null) or <<UsageInfo>>
    pendingUsage,               \* fetchUsage calls awaiting their response
    gens,                       \* handleGenerate invocations, by slot
    history, currentChat,       \* HomeContent state
    isLoadingHistory,
    pendingHistory,             \* getUserChats calls awaiting their response
    pendingDeletes,             \* handleDelete calls awaiting deleteChat
    saveDue,                    \* a re-render with its save effect is scheduled
    localStorage,               \* <<>> or <<text of 'animation_history'>>
    lastClick,                  \* what the last step clicked or pressed: a
                                \* resolution option, "Enter", "Generate"
    applied,                    \* events the last step parsed and for whom, or
                                \* the non-OK response it received
    delivered,                  \* number of webhook deliveries handled
    lastDelivery,               \* <<>> or <<payload the last delivery carried>>
    payments,                   \* <<clerk_id, payment_id>> of the payments delivered
    posts,                      \* POSTs to /webhook/payment awaiting the backend
    users,                      \* the backend's usage document of each user
    lastAnswer,                 \* <<>> or <<how the handler whose notifyBackend
                                \* settled in the last step ended>>
    adSense,                    \* <<>> or <<props of the mounted AdSense>>
    adBanner,                   \* <<>> or <<props of the mounted AdBanner>>
    adScripts,                  \* AdSense script elements in document.head
    adPushes,                   \* entries pushed to window.adsbygoogle
    searchParams,               \* <<>> or <<status and payment_id of the URL>>
    paymentSuccess, paymentMessage, usageRefreshTrigger,
    timers,                     \* setTimeout callbacks of the payment effect
    sessionStorage              \* <<>> or <<'last_selected_product'>>

clerkVars == <<isLoaded, isSignedIn>>
formVars == <<prompt, length, resolution, isDropdownOpen,
              isResolutionDropdownOpen>>
usageVars == <<usage, pendingUsage>>
resultVars == <<loading, videoUrl, code, error, currentProgress>>
pageVars == <<history, currentChat, isLoadingHistory, pendingHistory,
              saveDue, localStorage>>
stepVars == <<lastClick, applied>>
hookVars == <<delivered, lastDelivery, payments, posts, users, lastAnswer>>
adVars == <<adSense, adBanner, adScripts, adPushes>>
payVars == <<searchParams, paymentSuccess, paymentMessage, usageRefreshTrigger,
             timers, sessionStorage>>
browserVars == <<clerkVars, formVars, usageVars, resultVars, gens, pageVars,
                 pendingDeletes, stepVars, adVars, payVars>>
vars == <<browserVars, hookVars>>

\* ----------------------------------------------------------------- helpers
Range(s) == {s[i] : i \in 1..Len(s)}

\* Array.prototype.indexOf, 0-based, -1 when absent
indexOf(arr, x) ==
    IF \E i \in 1..Len(arr) : arr[i] = x
    THEN (CHOOSE i \in 1..Len(arr) : arr[i] = x /\ \A j \in 1..(i-1) : arr[j] # x) - 1
    ELSE -1

\* trim that removes nothing
trim_nothing(s) == s

\* String.prototype.trim on the modelled prompts
trim(s) == IF s = " " THEN "" ELSE s

\* JavaScript truthiness of a (possibly null/undefined) string
Truthy(s) == s \notin {"", "null", "undefined"}

\* a || b on strings
OrElse(a, b) == IF Truthy(a) THEN a ELSE b

\* user?.id as seen by the components
userIdNow == IF isSignedIn THEN UserId ELSE "undefined"

\* canAccessResolution with the credit test off by one (>= 0 for > 0)
canAccessResolution_anyCredits(minTier) ==
    IF usage = <<>> THEN minTier = "free"
    ELSE IF usage[1].basic_credits >= 0 THEN TRUE
    ELSE indexOf(tierOrder, usage[1].tier) >= indexOf(tierOrder, minTier)

\* canAccessResolution, AnimationGenerator.tsx:99-107
canAccessResolution(minTier) ==
    IF usage = <<>> THEN minTier = "free"
    ELSE IF usage[1].basic_credits > 0 THEN TRUE
    ELSE indexOf(tierOrder, usage[1].tier) >= indexOf(tierOrder, minTier)

\* ------------------------------------------------------------ SSE payloads
\* The ProgressStep objects the server may send (AnimationGenerator.tsx:16-23),
\* by the name used for them on the wire.
EventNames == {"progress_url", "complete_id", "complete_noid",
               "complete_nocode", "error_msg", "error_nomsg"}

ProgressStep(name) ==
    CASE name = "progress_url" ->
           [status |-> "finalizing", message |-> "m", video_url |-> "v",
            code |-> "k", chat_id |-> "c1"]
      [] name = "complete_id" ->
           [status |-> "complete", message |-> "m", video_url |-> "v",
            code |-> "k", chat_id |-> "c1"]
      [] name = "complete_noid" ->
           [status |-> "complete", message |-> "m", video_url |-> "v",
            code |-> "k", chat_id |-> "undefined"]
      [] name = "complete_nocode" ->
           [status |-> "complete", message |-> "m", video_url |-> "v",
            code |-> "undefined", chat_id |-> "c1"]
      [] name = "error_msg" ->
           [status |-> "error", message |-> "m", video_url |-> "undefined",
            code |-> "undefined", chat_id |-> "undefined"]
      [] name = "error_nomsg" ->
           [status |-> "error", message |-> "", video_url |-> "undefined",
            code |-> "undefined", chat_id |-> "undefined"]

\* The characters of the response text: the 'data: ' prefix, the newline and
\* the text of a JSON object each count as one character; "{" is the text of a
\* truncated object.
NL == "\n"
DataPrefix == "data: "

\* the server's `data: ${JSON.stringify(step)}` for one event, without newline
EncodeEvent(name) == <<DataPrefix, name>>

\* lines that are no event: the blank separator line and a truncated payload
NoiseLines == { <<>>, <<DataPrefix, "{">> }

\* JSON.parse of a payload: <<>> when it throws, else <<object>>
JSONparse(text) ==
    IF Len(text) = 1 /\ text[1] \in EventNames
    THEN <<ProgressStep(text[1])>>
    ELSE <<>>

\* line.startsWith('data: ')
startsWithData(line) == Len(line) >= 1 /\ line[1] = DataPrefix

\* line.slice(6)
slice6(line) == SubSeq(line, 2, Len(line))

\* String.prototype.split('\n'): the pieces between newlines, always >= 1
RECURSIVE split(_)
split(text) ==
    IF \A i \in 1..Len(text) : text[i] # NL
    THEN <<text>>
    ELSE LET i == CHOOSE k \in 1..Len(text) :
                     text[k] = NL /\ \A j \in 1..(k-1) : text[j] # NL
         IN  <<SubSeq(text, 1, i-1)>> \o split(SubSeq(text, i+1, Len(text)))

\* --------------------------------------------------------------- history
\* crypto.randomUUID(): a value no item in use carries
UUIDS == <<"uuid1", "uuid2", "uuid3", "uuid4", "uuid5", "uuid6">>

IdsInUse(h, cur) ==
    {h[i].id : i \in 1..Len(h)} \cup {cur[i].id : i \in 1..Len(cur)}
    \cup (IF localStorage = <<>> THEN {}
          ELSE UNION {{kv[2] : kv \in {m \in localStorage[1][i] : m[1] = "id"}} :
                         i \in 1..Len(localStorage[1])})

randomUUID(h, cur) ==
    LET free == {i \in 1..Len(UUIDS) : UUIDS[i] \notin IdsInUse(h, cur)}
    IN  UUIDS[CHOOSE i \in free : \A j \in free : i <= j]

\* JSON.stringify of the history array: one JSON object per item, holding the
\* members whose value is not undefined
stringifyItem(item) ==
    {<<k, item[k]>> : k \in {f \in DOMAIN item : item[f] # "undefined"}}

JSONstringify(h) == [i \in 1..Len(h) |-> stringifyItem(h[i])]

\* JSON.parse of such a text: members that are missing read as undefined
parseItem(obj) ==
    [k \in {"id", "prompt", "videoUrl", "code"} |->
        IF \E kv \in obj : kv[1] = k
        THEN (CHOOSE kv \in obj : kv[1] = k)[2]
        ELSE "undefined"]

JSONparseHistory(text) == [i \in 1..Len(text) |-> parseItem(text[i])]

\* the updater that moves an updated item to the front
upsertHistory_moveToFront(prev, newItem) ==
    <<newItem>> \o SelectSeq(prev, LAMBDA item : item.id # newItem.id)

\* handleGenerateComplete's setHistory updater, part_003:140-149
upsertHistory(prev, newItem) ==
    LET existingIndex ==
            IF \E i \in 1..Len(prev) : prev[i].id = newItem.id
            THEN CHOOSE i \in 1..Len(prev) :
                    prev[i].id = newItem.id /\ \A j \in 1..(i-1) : prev[j].id # newItem.id
            ELSE 0
    IN  IF existingIndex >= 1
        THEN [prev EXCEPT ![existingIndex] = newItem]
        ELSE <<newItem>> \o prev

\* the save effect of HomeContent, part_003:131-135, run for history h
saveEffect(h) ==
    IF isLoaded /\ ~isSignedIn THEN <<JSONstringify(h)>> ELSE localStorage

\* ------------------------------------------------------------ invocations
\* One handleGenerate invocation: where it is (pc), the request body it sent,
\* the response text written by the server and not yet read (wire), whether
\* the server ended the response (closed), and the locals buffer and completed.
\* inflight holds the events the server wrote and the invocation has not
\* parsed yet.
IdleGen ==
    [pc |-> "idle", body |-> <<>>, wire |-> <<>>, closed |-> FALSE,
     buffer |-> <<>>, completed |-> FALSE, emitted |-> 0,
     inflight |-> <<>>]

\* no event was parsed by the last step
NoApplied ==
    [g |-> 0, events |-> <<>>, response |-> <<>>, delete |-> <<>>, fetch |-> <<>>]

\* a step that clicks no resolution option and parses no event
Quiet == lastClick' = "none" /\ applied' = NoApplied

FreeSlots == {g \in Slots : gens[g].pc = "idle"}
NextSlot == CHOOSE g \in FreeSlots : \A h \in FreeSlots : g <= h

\* the invocation has returned: its reader and locals are gone
Finished(gen) == IdleGen

\* fetchUsage called with user id uid, AnimationGenerator.tsx:64-76
fetchUsageFrom(pending, uid) ==
    IF Truthy(uid) /\ pending < MaxPendingUsage
    THEN pending + 1
    ELSE pending

fetchUsage(uid) == fetchUsageFrom(pendingUsage, uid)

\* ---------------------------------------------------------------- webhook
\* payload.type values Dodo Payments delivers; the last has no handler here
DodoTypes == {"payment.succeeded", "subscription.active",
              "subscription.cancelled", "payment.failed"}

\* payload.data.metadata?.clerk_id: missing, empty, or a user's id
ClerkIds == {"undefined", "", "u1", "u2"}

\* the users the backend keeps a usage document for
Users == {c \in ClerkIds : Truthy(c)}

\* payloads: id is data.payment_id or data.subscription_id
Payloads ==
    [type : DodoTypes, clerk_id : ClerkIds, product_id : {"pdt_basic"},
     id : {"id1", "id2"}]

\* credits one Basic purchase adds (README, Webhook Events Handled)
CreditsPerPayment == 5

\* -------------------------------------------------------------------- Init
Init ==
    /\ isLoaded = FALSE
    /\ isSignedIn = FALSE
    /\ prompt = ""
    /\ length = "Medium (15s)"
    /\ resolution = "720p"
    /\ isDropdownOpen = FALSE
    /\ isResolutionDropdownOpen = FALSE
    /\ loading = FALSE
    /\ videoUrl = "null"
    /\ code = "null"
    /\ error = "null"
    /\ currentProgress = <<>>
    /\ usage = <<>>
    /\ pendingUsage = 0
    /\ gens = [g \in Slots |-> IdleGen]
    /\ history = <<>>
    /\ currentChat = <<>>
    /\ isLoadingHistory = FALSE
    /\ pendingHistory = 0
    /\ saveDue = FALSE
    /\ localStorage = <<>>
    /\ pendingDeletes = <<>>
    /\ lastClick = "none"
    /\ applied = NoApplied
    /\ delivered = 0
    /\ lastDelivery = <<>>
    /\ payments = {}
    /\ posts = <<>>
    /\ users = [u \in Users |-> [tier |-> "free", basic_credits |-> 0]]
    /\ lastAnswer = <<>>
    /\ adSense = <<>>
    /\ adBanner = <<>>
    /\ adScripts = 0
    /\ adPushes = 0
    /\ searchParams = <<>>
    /\ paymentSuccess = FALSE
    /\ paymentMessage = "Credits added to your account"
    /\ usageRefreshTrigger = 0
    /\ timers = 0
    /\ sessionStorage = <<>>

\* ------------------------------------------------------------------- usage
\* fetchUsage's response arrives, AnimationGenerator.tsx:67-74
UsageResponse(ok, data) ==
    /\ pendingUsage > 0
    /\ pendingUsage' = pendingUsage - 1
    /\ usage' = IF ok THEN <<data>> ELSE usage
    /\ Quiet
    /\ UNCHANGED <<pendingDeletes, hookVars, adVars, payVars>>
    /\ UNCHANGED <<clerkVars, formVars, resultVars, gens, pageVars>>

\* -------------------------------------------------------------------- form
\* textarea onChange, AnimationGenerator.tsx:266
TypePrompt(p) ==
    /\ p # prompt
    /\ prompt' = p
    /\ Quiet
    /\ UNCHANGED <<pendingDeletes, hookVars, adVars, payVars>>
    /\ UNCHANGED <<clerkVars, length, resolution, isDropdownOpen,
                   isResolutionDropdownOpen, usageVars, resultVars, gens,
                   pageVars>>

\* length dropdown button, :283; the mousedown listener (:82-94) closes the
\* other dropdown
ToggleLengthDropdown ==
    /\ isDropdownOpen' = ~isDropdownOpen
    /\ isResolutionDropdownOpen' = FALSE
    /\ Quiet
    /\ UNCHANGED <<pendingDeletes, hookVars, adVars, payVars>>
    /\ UNCHANGED <<clerkVars, prompt, length, resolution, usageVars,
                   resultVars, gens, pageVars>>

\* lengths.map onClick, :309-315
SelectLength(l) ==
    /\ isDropdownOpen
    /\ length' = l
    /\ isDropdownOpen' = FALSE
    /\ Quiet
    /\ UNCHANGED <<pendingDeletes, hookVars, adVars, payVars>>
    /\ UNCHANGED <<clerkVars, prompt, resolution, isResolutionDropdownOpen,
                   usageVars, resultVars, gens, pageVars>>

\* resolution dropdown button, :336
ToggleResolutionDropdown ==
    /\ isResolutionDropdownOpen' = ~isResolutionDropdownOpen
    /\ isDropdownOpen' = FALSE
    /\ Quiet
    /\ UNCHANGED <<pendingDeletes, hookVars, adVars, payVars>>
    /\ UNCHANGED <<clerkVars, prompt, length, resolution, usageVars,
                   resultVars, gens, pageVars>>

\* RESOLUTIONS.map onClick, :361-374
ClickResolution(r) ==
    /\ isResolutionDropdownOpen
    /\ LET isLocked == ~canAccessResolution(r.minTier)
       IN  IF ~isLocked
           THEN /\ resolution' = r.id
                /\ isResolutionDropdownOpen' = FALSE
           ELSE UNCHANGED <<resolution, isResolutionDropdownOpen>>
    /\ lastClick' = r.id
    /\ UNCHANGED <<pendingDeletes, hookVars, adVars, payVars>>
    /\ applied' = NoApplied
    /\ UNCHANGED <<clerkVars, prompt, length, isDropdownOpen, usageVars,
                   resultVars, gens, pageVars>>

\* mousedown outside both dropdowns, :82-94
handleClickOutside ==
    /\ isDropdownOpen \/ isResolutionDropdownOpen
    /\ isDropdownOpen' = FALSE
    /\ isResolutionDropdownOpen' = FALSE
    /\ Quiet
    /\ UNCHANGED <<pendingDeletes, hookVars, adVars, payVars>>
    /\ UNCHANGED <<clerkVars, prompt, length, resolution, usageVars,
                   resultVars, gens, pageVars>>

\* ---------------------------------------------------------- handleGenerate
\* handleGenerate up to the await of fetch, AnimationGenerator.tsx:121-141
handleGenerate ==
    IF trim(prompt) = ""
    THEN UNCHANGED <<clerkVars, formVars, usageVars, resultVars, gens, pageVars>>
    ELSE /\ FreeSlots # {}
         /\ loading' = TRUE
         /\ videoUrl' = "null"
         /\ error' = "null"
         /\ code' = "null"
         /\ currentProgress' = <<>>
         /\ gens' = [gens EXCEPT ![NextSlot] =
                        [IdleGen EXCEPT
                           !.pc = "fetch",
                           !.body = << [prompt |-> prompt,
                                        length |-> length,
                                        resolution |-> resolution,
                                        clerk_id |-> IF isSignedIn THEN userIdNow
                                                     ELSE "undefined"] >>]]
         /\ UNCHANGED <<clerkVars, formVars, usageVars, pageVars>>

\* textarea onKeyDown with Enter and no Shift, :269-274
PressEnter ==
    /\ handleGenerate
    /\ lastClick' = "Enter"
    /\ applied' = NoApplied
    /\ UNCHANGED <<pendingDeletes, hookVars, adVars, payVars>>

\* the Generate button, rendered only when signed in, :453-456
ClickGenerate ==
    /\ isSignedIn
    /\ ~(loading \/ prompt = "")
    /\ handleGenerate
    /\ lastClick' = "Generate"
    /\ applied' = NoApplied
    /\ UNCHANGED <<pendingDeletes, hookVars, adVars, payVars>>

\* the catch block without setLoading(false)
catchError_keepLoading(g, message) ==
    /\ error' = OrElse(message, "Something went wrong")
    /\ gens' = [gens EXCEPT ![g] = Finished(gens[g])]
    /\ UNCHANGED <<clerkVars, formVars, usageVars, loading, videoUrl, code,
                   currentProgress, pageVars>>

\* the catch block, :232-235
catchError(g, message) ==
    /\ error' = OrElse(message, "Something went wrong")
    /\ loading' = FALSE
    /\ gens' = [gens EXCEPT ![g] = Finished(gens[g])]
    /\ UNCHANGED <<clerkVars, formVars, usageVars, videoUrl, code,
                   currentProgress, pageVars>>

\* the response is not OK, with 401 handled like any other status
ResponseNotOk_no401(g, status, detail) ==
    /\ gens[g].pc = "fetch"
    /\ catchError(g, OrElse(detail, "Failed to start generation"))
    /\ lastClick' = "none"
    /\ applied' = [NoApplied EXCEPT
                      !.response = <<[status |-> status, detail |-> detail]>>]
    /\ UNCHANGED <<pendingDeletes, hookVars, adVars, payVars>>

\* the response is not OK, :143-149; detail is errorData.detail
ResponseNotOk(g, status, detail) ==
    /\ gens[g].pc = "fetch"
    /\ catchError(g, IF status = 401 THEN "Please sign in to generate videos"
                     ELSE OrElse(detail, "Failed to start generation"))
    /\ lastClick' = "none"
    /\ applied' = [NoApplied EXCEPT
                      !.response = <<[status |-> status, detail |-> detail]>>]
    /\ UNCHANGED <<pendingDeletes, hookVars, adVars, payVars>>

\* fetch itself rejects (network failure)
FetchRejects(g) ==
    /\ gens[g].pc = "fetch"
    /\ catchError(g, "Failed to fetch")
    /\ Quiet
    /\ UNCHANGED <<pendingDeletes, hookVars, adVars, payVars>>

\* the response is OK but has no body, :151-156
ResponseNoBody(g) ==
    /\ gens[g].pc = "fetch"
    /\ catchError(g, "No response body")
    /\ Quiet
    /\ UNCHANGED <<pendingDeletes, hookVars, adVars, payVars>>

\* the response is OK: the read loop starts, :158-162
ResponseOk(g) ==
    /\ gens[g].pc = "fetch"
    /\ gens' = [gens EXCEPT ![g].pc = "reading"]
    /\ Quiet
    /\ UNCHANGED <<pendingDeletes, hookVars, adVars, payVars>>
    /\ UNCHANGED <<clerkVars, formVars, usageVars, resultVars, pageVars>>

\* ------------------------------------------------------------- the server
\* items a full 'complete' event of this response could still add
IsFullComplete(name) ==
    LET d == ProgressStep(name)
    IN  d.status = "complete" /\ Truthy(d.video_url) /\ Truthy(d.code)

\* full 'complete' events written and not yet handled by the page
Outstanding(text) ==
    Cardinality({i \in 1..Len(text) : text[i] \in EventNames /\ IsFullComplete(text[i])})

RECURSIVE SumOutstanding(_)
SumOutstanding(G) ==
    IF G = {} THEN 0
    ELSE LET g == CHOOSE x \in G : TRUE
         IN  Outstanding(gens[g].wire) + Outstanding(gens[g].buffer)
               + SumOutstanding(G \ {g})

\* the history can take the item another full 'complete' event may add
HistoryRoom(name) ==
    \/ LET saved == IF localStorage = <<>> THEN 0 ELSE Len(localStorage[1])
           held == IF Len(history) >= saved THEN Len(history) ELSE saved
       IN  held + SumOutstanding(Slots) < MaxHistory
    \/ \E i \in 1..Len(history) : history[i].id = ProgressStep(name).chat_id

\* the server writes one event as a full line
ServerEmit(g, name) ==
    /\ gens[g].pc = "reading"
    /\ ~gens[g].closed
    /\ gens[g].emitted < MaxEmit
    /\ IsFullComplete(name) => HistoryRoom(name)
    /\ gens' = [gens EXCEPT ![g].wire = @ \o EncodeEvent(name) \o <<NL>>,
                            ![g].emitted = @ + 1,
                            ![g].inflight = Append(@, ProgressStep(name))]
    /\ Quiet
    /\ UNCHANGED <<pendingDeletes, hookVars, adVars, payVars>>
    /\ UNCHANGED <<clerkVars, formVars, usageVars, resultVars, pageVars>>

\* the server writes a line that is no event
ServerEmitNoise(g, line) ==
    /\ gens[g].pc = "reading"
    /\ ~gens[g].closed
    /\ gens[g].emitted < MaxEmit
    /\ gens' = [gens EXCEPT ![g].wire = @ \o line \o <<NL>>,
                            ![g].emitted = @ + 1]
    /\ Quiet
    /\ UNCHANGED <<pendingDeletes, hookVars, adVars, payVars>>
    /\ UNCHANGED <<clerkVars, formVars, usageVars, resultVars, pageVars>>

\* the server ends the response, possibly after a last line without newline
ServerEnd(g, tail) ==
    /\ gens[g].pc = "reading"
    /\ ~gens[g].closed
    /\ (tail # <<>> /\ IsFullComplete(tail[2])) => HistoryRoom(tail[2])
    /\ gens' = [gens EXCEPT ![g].wire = @ \o tail, ![g].closed = TRUE,
                            ![g].inflight = IF tail = <<>> THEN @
                                            ELSE Append(@, ProgressStep(tail[2]))]
    /\ Quiet
    /\ UNCHANGED <<pendingDeletes, hookVars, adVars, payVars>>
    /\ UNCHANGED <<clerkVars, formVars, usageVars, resultVars, pageVars>>

\* ------------------------------------------------------------ the read loop
\* the events still in flight once the events of seen were parsed
Unparsed(inflight, seen) ==
    IF Len(seen) <= Len(inflight)
       /\ \A i \in 1..Len(seen) : seen[i].event = inflight[i]
    THEN SubSeq(inflight, Len(seen) + 1, Len(inflight))
    ELSE inflight

\* The state one invocation's line handling reads and writes.
LoopState(g) ==
    [currentProgress |-> currentProgress, videoUrl |-> videoUrl, code |-> code,
     error |-> error, loading |-> loading, prompt |-> prompt,
     history |-> history, currentChat |-> currentChat,
     completed |-> gens[g].completed, seen |-> <<>>,
     historySet |-> FALSE, returned |-> FALSE]

\* the 'complete' branch, AnimationGenerator.tsx:177-188 (and :207-216), with
\* HomeContent.handleGenerateComplete (part_003:137-151) and the initialData
\* effect (AnimationGenerator.tsx:109-119) that the new currentChat triggers
completeBranch(st, data, genPrompt) ==
    LET newItem == [id |-> IF Truthy(data.chat_id) THEN data.chat_id
                           ELSE randomUUID(st.history, st.currentChat),
                    prompt |-> genPrompt,
                    videoUrl |-> data.video_url,
                    code |-> data.code]
    IN  [st EXCEPT !.completed = TRUE,
                   !.historySet = TRUE,
                   !.history = upsertHistory(st.history, newItem),
                   !.currentChat = <<newItem>>,
                   !.prompt = newItem.prompt,
                   !.videoUrl = OrElse(newItem.videoUrl, "null"),
                   !.code = OrElse(newItem.code, "null")]

\* the 'error' branch without its return
errorBranch_noReturn(st, data) ==
    [st EXCEPT !.error = OrElse(data.message, "An error occurred during generation"),
               !.loading = FALSE]

\* the 'error' branch, :189-193
errorBranch(st, data) ==
    [st EXCEPT !.error = OrElse(data.message, "An error occurred during generation"),
               !.loading = FALSE,
               !.returned = TRUE]

\* the line handling without the test of data.status in the 'complete' branch
processLine_anyStatus(line, st, genPrompt) ==
    IF ~startsWithData(line) THEN st
    ELSE LET parsed == JSONparse(slice6(line))
         IN  IF parsed = <<>> THEN st
             ELSE LET data == parsed[1]
                      st1 == [st EXCEPT !.currentProgress = <<data>>,
                                        !.seen = Append(@, [event |-> data, via |-> "loop"])]
                  IN  IF Truthy(data.video_url) /\ Truthy(data.code)
                      THEN completeBranch(st1, data, genPrompt)
                      ELSE IF data.status = "error"
                           THEN errorBranch(st1, data)
                           ELSE st1

\* the line handling giving up the stream on a payload that does not parse
processLine_stopOnBadJSON(line, st, genPrompt) ==
    IF ~startsWithData(line) THEN st
    ELSE LET parsed == JSONparse(slice6(line))
         IN  IF parsed = <<>> THEN [st EXCEPT !.returned = TRUE]
             ELSE LET data == parsed[1]
                      st1 == [st EXCEPT !.currentProgress = <<data>>,
                                        !.seen = Append(@, [event |-> data, via |-> "loop"])]
                  IN  IF data.status = "complete" /\ Truthy(data.video_url)
                                                  /\ Truthy(data.code)
                      THEN completeBranch(st1, data, genPrompt)
                      ELSE IF data.status = "error"
                           THEN errorBranch(st1, data)
                           ELSE st1

\* the body of `for (const line of lines)`, :170-199
processLine(line, st, genPrompt) ==
    IF ~startsWithData(line) THEN st
    ELSE LET parsed == JSONparse(slice6(line))
         IN  IF parsed = <<>> THEN st
             ELSE LET data == parsed[1]
                      st1 == [st EXCEPT !.currentProgress = <<data>>,
                                        !.seen = Append(@, [event |-> data, via |-> "loop"])]
                  IN  IF data.status = "complete" /\ Truthy(data.video_url)
                                                  /\ Truthy(data.code)
                      THEN completeBranch(st1, data, genPrompt)
                      ELSE IF data.status = "error"
                           THEN errorBranch(st1, data)
                           ELSE st1

\* the loop walking the lines from the last to the first
RECURSIVE processLines_reversed(_, _, _)
processLines_reversed(lines, st, genPrompt) ==
    IF lines = <<>> \/ st.returned THEN st
    ELSE processLines_reversed(SubSeq(lines, 1, Len(lines) - 1),
                               processLine(lines[Len(lines)], st, genPrompt),
                               genPrompt)

RECURSIVE processLines(_, _, _)
processLines(lines, st, genPrompt) ==
    IF lines = <<>> \/ st.returned THEN st
    ELSE processLines(Tail(lines), processLine(Head(lines), st, genPrompt), genPrompt)

\* the handling of the remaining buffer after the loop, :202-221
processRemaining(buffer, st, genPrompt) ==
    IF ~startsWithData(buffer) THEN st
    ELSE LET parsed == JSONparse(slice6(buffer))
         IN  IF parsed = <<>> THEN st
             ELSE LET data == parsed[1]
                      st1 == [st EXCEPT !.seen = Append(@, [event |-> data, via |-> "tail"])]
                  IN  IF data.status = "complete" /\ Truthy(data.video_url)
                            /\ Truthy(data.code) /\ ~st.completed
                      THEN completeBranch(st1, data, genPrompt)
                      ELSE st1

\* writes the loop's state back, with the save effect of HomeContent when the
\* history changed
ApplyLoopState(st) ==
    /\ currentProgress' = st.currentProgress
    /\ videoUrl' = st.videoUrl
    /\ code' = st.code
    /\ error' = st.error
    /\ loading' = st.loading
    /\ prompt' = st.prompt
    /\ history' = st.history
    /\ currentChat' = st.currentChat
    /\ localStorage' = IF st.historySet THEN saveEffect(st.history)
                       ELSE localStorage

\* the loop body with the rest of the last line thrown away
readChunk_dropRest(buffer, st, value, genPrompt) ==
    LET lines == split(buffer \o value)
    IN  [st |-> processLines(SubSeq(lines, 1, Len(lines) - 1), st, genPrompt),
         buffer |-> <<>>]

\* the body of the read loop for one chunk, :165-199: the state it leaves
\* and the new buffer (lines.pop())
readChunk(buffer, st, value, genPrompt) ==
    LET lines == split(buffer \o value)
    IN  [st |-> processLines(SubSeq(lines, 1, Len(lines) - 1), st, genPrompt),
         buffer |-> lines[Len(lines)]]

\* one reader.read() that returns the next k characters, :162-200
Read(g, k) ==
    /\ gens[g].pc = "reading"
    /\ k \in 1..Len(gens[g].wire)
    /\ \E r \in {readChunk(gens[g].buffer, LoopState(g),
                            SubSeq(gens[g].wire, 1, k), gens[g].body[1].prompt)} :
       LET st == r.st
           gen == [gens[g] EXCEPT !.wire = SubSeq(@, k + 1, Len(@)),
                                  !.buffer = r.buffer,
                                  !.completed = st.completed,
                                  !.inflight = Unparsed(@, st.seen)]
       IN  /\ ApplyLoopState(st)
           /\ applied' = [NoApplied EXCEPT !.g = g, !.events = st.seen]
           /\ gens' = [gens EXCEPT ![g] = IF st.returned THEN Finished(gen) ELSE gen]
    /\ lastClick' = "none"
    /\ UNCHANGED <<pendingDeletes, hookVars, adVars, payVars>>
    /\ UNCHANGED <<clerkVars, length, resolution, isDropdownOpen,
                   isResolutionDropdownOpen, usageVars, isLoadingHistory,
                   pendingHistory, saveDue>>

\* the end of the stream with the error set whether completed or not
streamEnd_alwaysError(st) ==
    [st EXCEPT !.loading = FALSE,
               !.error = "Generation ended unexpectedly. Please try again."]

\* the state setters after the remaining buffer, :223-231
streamEnd(st) ==
    [st EXCEPT !.loading = FALSE,
               !.error = IF ~st.completed
                         THEN "Generation ended unexpectedly. Please try again."
                         ELSE @]

\* reader.read() reports done: the code after the loop, :202-231
ReadDone(g) ==
    /\ gens[g].pc = "reading"
    /\ gens[g].closed
    /\ gens[g].wire = <<>>
    /\ LET st0 == processRemaining(gens[g].buffer, LoopState(g),
                                   gens[g].body[1].prompt)
           st == streamEnd(st0)
       IN  /\ ApplyLoopState(st)
           /\ applied' = [NoApplied EXCEPT !.g = g, !.events = st.seen]
           /\ gens' = [gens EXCEPT ![g] =
                          Finished([gens[g] EXCEPT !.completed = st.completed,
                                                   !.inflight = Unparsed(@, st.seen)])]
    /\ pendingUsage' = fetchUsage(gens[g].body[1].clerk_id)
    /\ lastClick' = "none"
    /\ UNCHANGED <<pendingDeletes, hookVars, adVars, payVars>>
    /\ UNCHANGED <<clerkVars, length, resolution, isDropdownOpen,
                   isResolutionDropdownOpen, usage, isLoadingHistory,
                   pendingHistory, saveDue>>

\* reader.read() rejects (the connection drops): the catch block
ReadRejects(g) ==
    /\ gens[g].pc = "reading"
    /\ catchError(g, "network error")
    /\ Quiet
    /\ UNCHANGED <<pendingDeletes, hookVars, adVars, payVars>>

\* ------------------------------------------------------------- HomeContent
\* chats GET /chats/{id} may return (lib/api Chat, part_009:9-16)
ServerChats ==
    { <<>>,
      << [id |-> "c1", prompt |-> "a", length |-> "Medium (15s)",
          video_url |-> "v", code |-> "k", created_at |-> "t"] >> }

\* chatToHistoryItem, part_003:80-86 (the timestamp is not modelled)
chatToHistoryItem(chat) ==
    [id |-> chat.id, prompt |-> chat.prompt, videoUrl |-> chat.video_url,
     code |-> chat.code]

\* fetchHistory for a signed-out user, part_003:90-101: the history it sets
loadSaved == IF localStorage # <<>> THEN JSONparseHistory(localStorage[1])
             ELSE history

\* getUserChats issued, part_003:103-105
startFetchHistory ==
    IF pendingHistory < MaxPendingHistory THEN pendingHistory + 1
    ELSE pendingHistory

\* the initialData effect, AnimationGenerator.tsx:109-119, for a new currentChat
initialDataEffect(chat) ==
    IF chat # <<>>
    THEN /\ prompt' = chat[1].prompt
         /\ videoUrl' = OrElse(chat[1].videoUrl, "null")
         /\ code' = OrElse(chat[1].code, "null")
    ELSE /\ prompt' = ""
         /\ videoUrl' = "null"
         /\ code' = "null"

\* ---------------------------------------------------- the payment return
\* what the URL of the page may carry (searchParams.get of status, payment_id)
ReturnParams == [status : {"succeeded", "failed"}, payment_id : {"null", "pay_1"}]

\* tier.name.toLowerCase() of the plans sold, part_005:199-202
PlanNames == {"basic", "pro"}

\* the condition of the payment effect, part_003:49-52
paymentReturned(uid) ==
    /\ searchParams # <<>>
    /\ searchParams[1].status = "succeeded"
    /\ Truthy(searchParams[1].payment_id)
    /\ Truthy(uid)

\* the message the effect chooses, part_003:58-65
messageFor(storage) ==
    LET lastProduct == IF storage # <<>> THEN storage[1] ELSE "basic"
    IN  IF lastProduct = "pro" THEN "Pro subscription activated!"
        ELSE "5 credits added to your account"

\* an effect that itself posts the payment to the backend
paymentReturnPosts_manualWebhook(uid) ==
    Append(posts, [event_type |-> "payment_succeeded", clerk_id |-> uid,
                   product_id |-> "basic"])

\* the POSTs to /webhook/payment after the payment effect, part_003:52-76:
\* the effect sends none
paymentReturnPosts(uid) == posts

\* the payment effect, part_003:48-77, run for user id uid, and the
\* fetchUsage that the new usageRefreshTrigger starts
\* (AnimationGenerator.tsx:78-80) on top of `pending` calls
paymentEffect(uid, pending) ==
    IF paymentReturned(uid)
    THEN /\ usageRefreshTrigger < MaxRefresh
         /\ paymentSuccess' = TRUE
         /\ paymentMessage' = messageFor(sessionStorage)
         /\ usageRefreshTrigger' = usageRefreshTrigger + 1
         /\ timers' = timers + 1
         /\ posts' = paymentReturnPosts(uid)
         /\ pendingUsage' = fetchUsageFrom(pending, uid)
         /\ UNCHANGED <<searchParams, sessionStorage>>
    ELSE /\ pendingUsage' = pending
         /\ UNCHANGED <<payVars, posts>>

\* Clerk finishes loading: the effects of the render that first sees
\* isLoaded, part_003:123-135 and AnimationGenerator.tsx:78-80
ClerkLoaded(signedIn) ==
    /\ ~isLoaded
    /\ isLoaded' = TRUE
    /\ isSignedIn' = signedIn
    /\ LET uid == IF signedIn THEN UserId ELSE "undefined"
       IN  paymentEffect(uid, fetchUsage(uid))
    /\ IF signedIn
       THEN /\ isLoadingHistory' = TRUE
            /\ pendingHistory' = startFetchHistory
            /\ UNCHANGED <<history, localStorage, saveDue>>
       ELSE /\ history' = loadSaved
            /\ localStorage' = <<JSONstringify(history)>>
            /\ saveDue' = (localStorage # <<>>)
            /\ UNCHANGED <<isLoadingHistory, pendingHistory>>
    /\ Quiet
    /\ UNCHANGED <<pendingDeletes, delivered, lastDelivery, payments, users,
                   lastAnswer, adVars>>
    /\ UNCHANGED <<formVars, usage, resultVars, gens, currentChat>>

\* the user signs in: the effects that depend on isSignedIn and user?.id
SignIn ==
    /\ isLoaded /\ ~isSignedIn
    /\ isSignedIn' = TRUE
    /\ paymentEffect(UserId, fetchUsage(UserId))
    /\ isLoadingHistory' = TRUE
    /\ pendingHistory' = startFetchHistory
    /\ Quiet
    /\ UNCHANGED <<pendingDeletes, delivered, lastDelivery, payments, users,
                   lastAnswer, adVars>>
    /\ UNCHANGED <<isLoaded, formVars, usage, resultVars, gens, history,
                   currentChat, saveDue, localStorage>>

\* the user signs out: fetchHistory takes the localStorage branch and the save
\* effect runs with the history of the render that saw the change
SignOut ==
    /\ isLoaded /\ isSignedIn
    /\ isSignedIn' = FALSE
    /\ history' = loadSaved
    /\ localStorage' = <<JSONstringify(history)>>
    /\ saveDue' = (localStorage # <<>>)
    /\ Quiet
    /\ UNCHANGED <<pendingDeletes, hookVars, adVars, payVars>>
    /\ UNCHANGED <<isLoaded, formVars, usageVars, resultVars, gens,
                   currentChat, isLoadingHistory, pendingHistory>>

\* the re-render after fetchHistory's setHistory: the save effect runs again
RerenderSave ==
    /\ saveDue
    /\ saveDue' = FALSE
    /\ localStorage' = saveEffect(history)
    /\ Quiet
    /\ UNCHANGED <<pendingDeletes, hookVars, adVars, payVars>>
    /\ UNCHANGED <<clerkVars, formVars, usageVars, resultVars, gens, history,
                   currentChat, isLoadingHistory, pendingHistory>>

\* getUserChats, part_009:26-42: the chats of an OK response, and [] when the
\* response is not OK or the fetch throws
getUserChats(response) ==
    IF response.kind = "ok" THEN response.chats ELSE <<>>

\* getUserChats settles and fetchHistory goes on, part_003:105-106 and
\* :118-120; getUserChats does not throw, so the catch (:107-117) is not
\* entered for any response
fetchSettles(response) ==
    /\ pendingHistory > 0
    /\ pendingHistory' = pendingHistory - 1
    /\ LET chats == getUserChats(response)
       IN  history' = [i \in 1..Len(chats) |-> chatToHistoryItem(chats[i])]
    /\ isLoadingHistory' = FALSE
    /\ localStorage' = saveEffect(history')
    /\ lastClick' = "none"
    /\ applied' = [NoApplied EXCEPT !.fetch = <<response.kind>>]
    /\ UNCHANGED <<pendingDeletes, hookVars, adVars, payVars>>
    /\ UNCHANGED <<clerkVars, formVars, usageVars, resultVars, gens,
                   currentChat, saveDue>>

\* the backend answers GET /chats/{id} with the user's chats
HistoryResponse(chats) == fetchSettles([kind |-> "ok", chats |-> chats])

\* the GET fails: a response that is not OK, or no response at all
HistoryFails(kind) ==
    /\ kind \in {"not ok", "network error"}
    /\ fetchSettles([kind |-> kind, chats |-> <<>>])

\* Sidebar onSelect = setCurrentChat, part_003:189
onSelect(i) ==
    /\ i \in 1..Len(history)
    /\ currentChat # <<history[i]>>
    /\ currentChat' = <<history[i]>>
    /\ initialDataEffect(currentChat')
    /\ Quiet
    /\ UNCHANGED <<pendingDeletes, hookVars, adVars, payVars>>
    /\ UNCHANGED <<clerkVars, length, resolution, isDropdownOpen,
                   isResolutionDropdownOpen, usageVars, loading, error,
                   currentProgress, gens, history, isLoadingHistory,
                   pendingHistory, saveDue, localStorage>>

\* Sidebar onNew, part_003:190
onNew ==
    /\ currentChat # <<>>
    /\ currentChat' = <<>>
    /\ initialDataEffect(currentChat')
    /\ Quiet
    /\ UNCHANGED <<pendingDeletes, hookVars, adVars, payVars>>
    /\ UNCHANGED <<clerkVars, length, resolution, isDropdownOpen,
                   isResolutionDropdownOpen, usageVars, loading, error,
                   currentProgress, gens, history, isLoadingHistory,
                   pendingHistory, saveDue, localStorage>>

\* handleDelete, part_003:153-170, up to its await: a signed-out user's
\* delete runs to the end, a signed-in user's awaits deleteChat first
afterDelete(id, closureChat) ==
    /\ history' = SelectSeq(history, LAMBDA item : item.id # id)
    /\ IF closureChat # <<>> /\ closureChat[1].id = id
       THEN /\ currentChat' = <<>>
            /\ IF currentChat # <<>>
               THEN initialDataEffect(<<>>)
               ELSE UNCHANGED <<prompt, videoUrl, code>>
       ELSE UNCHANGED <<currentChat, prompt, videoUrl, code>>
    /\ localStorage' = saveEffect(history')

\* the local deletion only when deleteChat did not throw
localDeletionRuns_unlessRejected(outcome) == outcome # "rejected"

\* handleDelete reaches its setHistory, part_003:157-166: deleteChat resolved,
\* or it threw and the catch only logs, or it was not called
localDeletionRuns(outcome) == outcome \in {"resolved", "rejected", "skipped"}

\* the rest of handleDelete once the DELETE is behind it, part_003:160-169
finishDelete(id, closureChat, outcome) ==
    /\ IF localDeletionRuns(outcome)
       THEN afterDelete(id, closureChat)
       ELSE UNCHANGED <<history, currentChat, prompt, videoUrl, code,
                        localStorage>>
    /\ lastClick' = "none"
    /\ applied' = [NoApplied EXCEPT
                      !.delete = <<[id |-> id, currentChat |-> closureChat,
                                    outcome |-> outcome]>>]

handleDelete(id) ==
    /\ \E i \in 1..Len(history) : history[i].id = id
    /\ IF isSignedIn
       THEN /\ Len(pendingDeletes) < MaxPendingDeletes
            /\ pendingDeletes' =
                  Append(pendingDeletes, [id |-> id, currentChat |-> currentChat])
            /\ UNCHANGED <<history, currentChat, prompt, videoUrl, code,
                           localStorage>>
            /\ Quiet
       ELSE /\ finishDelete(id, currentChat, "skipped")
            /\ UNCHANGED pendingDeletes
    /\ UNCHANGED <<hookVars, adVars, payVars>>
    /\ UNCHANGED <<clerkVars, length, resolution, isDropdownOpen,
                   isResolutionDropdownOpen, usageVars, loading, error,
                   currentProgress, gens, isLoadingHistory, pendingHistory,
                   saveDue>>

\* deleteChat settles (part_009:65-78 resolves on an OK response and throws
\* otherwise): the rest of handleDelete, part_003:158-169, runs with the
\* currentChat of the render that called it
deleteChatSettles(ok) ==
    /\ pendingDeletes # <<>>
    /\ finishDelete(pendingDeletes[1].id, pendingDeletes[1].currentChat,
                    IF ok THEN "resolved" ELSE "rejected")
    /\ pendingDeletes' = Tail(pendingDeletes)
    /\ UNCHANGED <<hookVars, adVars, payVars>>
    /\ UNCHANGED <<clerkVars, length, resolution, isDropdownOpen,
                   isResolutionDropdownOpen, usageVars, loading, error,
                   currentProgress, gens, isLoadingHistory, pendingHistory,
                   saveDue>>

\* the page is loaded again: component state starts over, localStorage stays
loadPage ==
    /\ isLoaded' = FALSE
    /\ isSignedIn' = FALSE
    /\ prompt' = ""
    /\ length' = "Medium (15s)"
    /\ resolution' = "720p"
    /\ isDropdownOpen' = FALSE
    /\ isResolutionDropdownOpen' = FALSE
    /\ loading' = FALSE
    /\ videoUrl' = "null"
    /\ code' = "null"
    /\ error' = "null"
    /\ currentProgress' = <<>>
    /\ usage' = <<>>
    /\ pendingUsage' = 0
    /\ gens' = [g \in Slots |-> IdleGen]
    /\ history' = <<>>
    /\ currentChat' = <<>>
    /\ isLoadingHistory' = FALSE
    /\ pendingHistory' = 0
    /\ saveDue' = FALSE
    /\ Quiet
    /\ pendingDeletes' = <<>>
    /\ adSense' = <<>>
    /\ adBanner' = <<>>
    /\ adScripts' = 0
    /\ adPushes' = 0
    /\ paymentSuccess' = FALSE
    /\ paymentMessage' = "Credits added to your account"
    /\ usageRefreshTrigger' = 0
    /\ timers' = 0
    /\ UNCHANGED hookVars
    /\ UNCHANGED <<localStorage, sessionStorage>>

Remount == loadPage /\ UNCHANGED searchParams

\* the checkout sends the browser back to the page with the payment's
\* outcome in the URL
ReturnFromCheckout(params) ==
    /\ loadPage
    /\ searchParams' = <<params>>

\* PricingModal's button, part_005:198-202: the plan chosen is remembered
\* before the browser leaves for the checkout
ChoosePlan(name) ==
    /\ isLoaded /\ isSignedIn
    /\ sessionStorage # <<name>>
    /\ sessionStorage' = <<name>>
    /\ Quiet
    /\ UNCHANGED <<searchParams, paymentSuccess, paymentMessage,
                   usageRefreshTrigger, timers>>
    /\ UNCHANGED <<clerkVars, formVars, usageVars, resultVars, gens, pageVars,
                   pendingDeletes, adVars, hookVars>>

\* a timer of the payment effect fires, part_003:71-75; the effect runs again
\* for the cleared URL and does nothing
PaymentTimerFires ==
    /\ timers > 0
    /\ timers' = timers - 1
    /\ searchParams' = <<>>
    /\ paymentSuccess' = FALSE
    /\ sessionStorage' = <<>>
    /\ Quiet
    /\ UNCHANGED <<paymentMessage, usageRefreshTrigger>>
    /\ UNCHANGED <<clerkVars, formVars, usageVars, resultVars, gens, pageVars,
                   pendingDeletes, adVars, hookVars>>

\* ------------------------------------------------------- webhook handlers
\* notifyBackend, part_000:159-176: the POST it sends
notifyBackend(eventType, clerkId, productId) ==
    Append(posts, [event_type |-> eventType, clerk_id |-> clerkId,
                   product_id |-> productId])

\* what every delivery does besides its handler
Delivered(payload) ==
    /\ delivered < MaxDeliveries
    /\ delivered' = delivered + 1
    /\ lastDelivery' = <<payload>>
    /\ payments' = IF payload.type = "payment.succeeded" /\ Truthy(payload.clerk_id)
                   THEN payments \cup {<<payload.clerk_id, payload.id>>}
                   ELSE payments
    /\ lastAnswer' = <<>>
    /\ UNCHANGED <<users, browserVars>>

\* onPaymentSucceeded without the test of clerkId
onPaymentSucceeded_noGuard(payload) ==
    /\ payload.type = "payment.succeeded"
    /\ Delivered(payload)
    /\ posts' = notifyBackend("payment_succeeded", payload.clerk_id,
                              payload.product_id)

\* onPaymentSucceeded, part_000:183-191
onPaymentSucceeded(payload) ==
    /\ payload.type = "payment.succeeded"
    /\ Delivered(payload)
    /\ LET clerkId == payload.clerk_id
           productId == payload.product_id
       IN  posts' = IF Truthy(clerkId)
                    THEN notifyBackend("payment_succeeded", clerkId, productId)
                    ELSE posts

\* onSubscriptionActive, part_000:192-198
onSubscriptionActive(payload) ==
    /\ payload.type = "subscription.active"
    /\ Delivered(payload)
    /\ LET clerkId == payload.clerk_id
       IN  posts' = IF Truthy(clerkId)
                    THEN notifyBackend("subscription_active", clerkId, "undefined")
                    ELSE posts

\* onSubscriptionCancelled, part_000:199-205
onSubscriptionCancelled(payload) ==
    /\ payload.type = "subscription.cancelled"
    /\ Delivered(payload)
    /\ LET clerkId == payload.clerk_id
       IN  posts' = IF Truthy(clerkId)
                    THEN notifyBackend("subscription_cancelled", clerkId, "undefined")
                    ELSE posts

\* onPayload, part_000:180-182, for a type that has no handler of its own
onPayload(payload) ==
    /\ payload.type \notin {"payment.succeeded", "subscription.active",
                            "subscription.cancelled"}
    /\ Delivered(payload)
    /\ UNCHANGED posts

RemoveAt(s, i) == SubSeq(s, 1, i - 1) \o SubSeq(s, i + 1, Len(s))

\* the backend's /webhook/payment as the README describes it
webhookPayment(doc, body) ==
    CASE body.event_type = "payment_succeeded" ->
            [doc EXCEPT !.basic_credits = @ + CreditsPerPayment]
      [] body.event_type = "subscription_active" ->
            [doc EXCEPT !.tier = "pro"]
      [] body.event_type = "subscription_cancelled" ->
            [doc EXCEPT !.tier = "free"]
      [] OTHER -> doc

\* a notifyBackend that lets the error of a failed POST escape
notifyBackendReturns_rethrow(outcome) ==
    IF outcome = "ok" THEN "data" ELSE "throws"

\* what notifyBackend ends with, part_000:160-175: the parsed body, or
\* undefined after the catch when fetch threw or response.json() could not
\* parse the body
notifyBackendReturns(outcome) ==
    IF outcome = "ok" THEN "data" ELSE "undefined"

\* the handler that awaited notifyBackend, part_000:183-205: it has no try and
\* nothing after the await, so it ends as notifyBackend ends
handlerEnds(returned) ==
    IF returned = "throws" THEN "rejected" ELSE "resolved"

\* the handler of the POST is resumed
answerFor(post, outcome) ==
    <<[post |-> post, outcome |-> outcome,
       returned |-> notifyBackendReturns(outcome),
       handler |-> handlerEnds(notifyBackendReturns(outcome))]>>

\* the backend handles one of the POSTs and answers
BackendApply(i) ==
    /\ i \in 1..Len(posts)
    /\ users' = [users EXCEPT ![posts[i].clerk_id] = webhookPayment(@, posts[i])]
    /\ posts' = RemoveAt(posts, i)
    /\ lastAnswer' = answerFor(posts[i], "ok")
    /\ UNCHANGED <<delivered, lastDelivery, payments, browserVars>>

\* the POST fails before the backend handles it: fetch throws, or what comes
\* back is not JSON; the catch logs it, part_000:173-175
notifyBackendFails(i, outcome) ==
    /\ i \in 1..Len(posts)
    /\ outcome \in {"fetch throws", "unparsable body"}
    /\ posts' = RemoveAt(posts, i)
    /\ lastAnswer' = answerFor(posts[i], outcome)
    /\ UNCHANGED <<delivered, lastDelivery, payments, users, browserVars>>

\* ---------------------------------------------------------- specifications
\* The prompt form: sign-in state, usage, the two dropdowns and the requests.
NextUI ==
    \/ \E si \in BOOLEAN : ClerkLoaded(si)
    \/ SignIn
    \/ SignOut
    \/ RerenderSave
    \/ \E ok \in BOOLEAN, d \in UsageDocs : UsageResponse(ok, d)
    \/ \E p \in Prompts : TypePrompt(p)
    \/ ToggleLengthDropdown
    \/ \E i \in 1..Len(lengths) : SelectLength(lengths[i])
    \/ ToggleResolutionDropdown
    \/ \E i \in 1..Len(RESOLUTIONS) : ClickResolution(RESOLUTIONS[i])
    \/ handleClickOutside
    \/ PressEnter
    \/ ClickGenerate
    \/ \E g \in Slots : ResponseNotOk(g, 401, "undefined")

SpecUI == Init /\ [][NextUI]_vars

\* One generation after another: the request, the response and the SSE stream.
StreamEvents == {"progress_url", "complete_id", "complete_nocode",
                 "error_msg", "error_nomsg"}

NextGen ==
    \/ ClerkLoaded(TRUE)
    \/ TypePrompt("a")
    \/ PressEnter
    \/ ClickGenerate
    \/ \E g \in Slots :
         \/ \E status \in {401, 500}, detail \in {"undefined", "d"} :
               ResponseNotOk(g, status, detail)
         \/ FetchRejects(g)
         \/ ResponseNoBody(g)
         \/ ResponseOk(g)
         \/ \E name \in StreamEvents : ServerEmit(g, name)
         \/ \E line \in NoiseLines : ServerEmitNoise(g, line)
         \/ \E tail \in {<<>>} \cup {EncodeEvent(n) : n \in StreamEvents} :
               ServerEnd(g, tail)
         \/ \E k \in 1..Len(gens[g].wire) : Read(g, k)
         \/ ReadDone(g)
         \/ ReadRejects(g)

SpecGen == Init /\ [][NextGen]_vars

\* The page of a signed-out user: generations, deletions and reloads.
NextPage ==
    \/ ClerkLoaded(FALSE)
    \/ RerenderSave
    \/ \E i \in 1..Len(history) : onSelect(i)
    \/ onNew
    \/ \E i \in 1..Len(history) : handleDelete(history[i].id)
    \/ Remount
    \/ TypePrompt("a")
    \/ PressEnter
    \/ \E g \in Slots :
         \/ ResponseOk(g)
         \/ ServerEmit(g, "complete_noid")
         \/ ServerEnd(g, <<>>)
         \/ \E k \in {Len(gens[g].wire)} : Read(g, k)
         \/ ReadDone(g)

SpecPage == Init /\ [][NextPage]_vars

\* The page of a user who signs in and out: the history kept by the server.
NextAccount ==
    \/ \E si \in BOOLEAN : ClerkLoaded(si)
    \/ SignIn
    \/ SignOut
    \/ RerenderSave
    \/ \E chats \in ServerChats : HistoryResponse(chats)
    \/ \E kind \in {"not ok", "network error"} : HistoryFails(kind)
    \/ \E i \in 1..Len(history) : onSelect(i)
    \/ onNew
    \/ \E i \in 1..Len(history) : handleDelete(history[i].id)
    \/ \E ok \in BOOLEAN : deleteChatSettles(ok)
    \/ Remount

SpecAccount == Init /\ [][NextAccount]_vars

\* The webhook route and the backend behind it.
NextWebhook ==
    \/ \E payload \in Payloads :
         \/ onPaymentSucceeded(payload)
         \/ onSubscriptionActive(payload)
         \/ onSubscriptionCancelled(payload)
         \/ onPayload(payload)
    \/ \E i \in 1..Len(posts) :
         \/ BackendApply(i)
         \/ \E outcome \in {"fetch throws", "unparsable body"} :
               notifyBackendFails(i, outcome)

SpecWebhook == Init /\ [][NextWebhook]_vars

\* ------------------------------------------------------------------ claims
\* invocation g issues its POST to /generate-stream in this step
Posted(g) == gens[g].pc # "fetch" /\ gens'[g].pc = "fetch"

\* the usage shows the free tier without basic credits
FreeUser ==
    usage # <<>> /\ usage[1].tier = "free" /\ usage[1].basic_credits = 0

\* C1: while the user is not signed in, no step issues a POST to
\* /generate-stream, whatever UI event the step is.
C1_NoPostWhileSignedOut ==
    [][~isSignedIn => \A g \in Slots : ~Posted(g)]_vars

\* C3: for a user on the free tier without basic credits, or whose usage has
\* not been loaded, no step sets the resolution to '1080p' or '4k': the
\* resolution either stays what it was or becomes '720p'.
C3_LockedResolutionsStayLocked ==
    [][(usage = <<>> \/ FreeUser) => resolution' \in {resolution, "720p"}]_vars

\* C3 witness: a free user clicked a locked option of the open resolution
\* dropdown, and the resolution is still 720p and the dropdown still open.
C3_Witness ==
    /\ FreeUser
    /\ lastClick \in {"1080p", "4k"}
    /\ isResolutionDropdownOpen
    /\ resolution = "720p"

\* C4: for a user on the free tier without basic credits, the length sent in
\* a /generate-stream request is never 'Deep Dive (2m)' or 'Extended (5m)'.
C4_FreeLengthAtMostOneMinute ==
    [][FreeUser =>
         \A g \in Slots :
            Posted(g) =>
               gens'[g].body[1].length \notin {"Deep Dive (2m)", "Extended (5m)"}]_vars

\* the events the step's invocation parsed in its read loop
LoopEvents(a) ==
    LET idx == {i \in 1..Len(a.events) : a.events[i].via = "loop"}
    IN  [i \in 1..Cardinality(idx) |-> a.events[i].event]

IsPrefix(s, t) == Len(s) <= Len(t) /\ \A i \in 1..Len(s) : s[i] = t[i]

\* the event carries what the 'complete' branch needs
FullComplete(data) ==
    data.status = "complete" /\ Truthy(data.video_url) /\ Truthy(data.code)

C6_VideoOnlyByComplete ==
    [][(videoUrl' # videoUrl \/ code' # code \/ history' # history)
          => \/ applied'.g = 0 /\ videoUrl' = "null" /\ code' = "null"
                               /\ history' = history
             \/ \E i \in 1..Len(applied'.events) :
                   /\ FullComplete(applied'.events[i].event)
                   /\ videoUrl' = applied'.events[i].event.video_url
                   /\ code' = applied'.events[i].event.code]_vars

\* C6 witness: a read parsed a 'complete' event without code during a
\* generation; videoUrl and code are still null and the history is empty.
C6_Witness ==
    /\ applied.g # 0
    /\ \E i \in 1..Len(applied.events) :
          /\ applied.events[i].event.status = "complete"
          /\ ~Truthy(applied.events[i].event.code)
    /\ loading
    /\ videoUrl = "null" /\ code = "null" /\ history = <<>>

Delivery == delivered' # delivered

\* event_type the backend expects for a Dodo payload type
EventName(type) ==
    CASE type = "payment.succeeded" -> "payment_succeeded"
      [] type = "subscription.active" -> "subscription_active"
      [] type = "subscription.cancelled" -> "subscription_cancelled"
      [] OTHER -> "none"

\* C8: however often the payment_succeeded events are delivered, a user has
\* no more Basic credits than one purchase's worth for each distinct
\* payment_id delivered for them.
C8_CreditsOncePerPayment ==
    \A u \in Users :
       users[u].basic_credits
          <= CreditsPerPayment * Cardinality({p \in payments : p[1] = u})

\* C9: a delivery of payment_succeeded, subscription_active or
\* subscription_cancelled with a clerk_id adds exactly one POST, carrying that
\* event's name and that clerk_id; a delivery without a clerk_id, and every
\* step that is not a delivery, adds none.
C9_OnePostPerEvent ==
    [][IF Delivery /\ EventName(lastDelivery'[1].type) # "none"
                   /\ Truthy(lastDelivery'[1].clerk_id)
       THEN /\ Len(posts') = Len(posts) + 1
            /\ SubSeq(posts', 1, Len(posts)) = posts
            /\ posts'[Len(posts')].event_type = EventName(lastDelivery'[1].type)
            /\ posts'[Len(posts')].clerk_id = lastDelivery'[1].clerk_id
       ELSE /\ Len(posts') <= Len(posts)
            /\ Delivery => posts' = posts]_vars

\* C9 witness: the last delivery was a subscription_cancelled event for user
\* u2 and its POST is the newest one in flight, behind an earlier one.
C9_Witness ==
    /\ lastDelivery # <<>>
    /\ lastDelivery[1].type = "subscription.cancelled"
    /\ lastDelivery[1].clerk_id = "u2"
    /\ Len(posts) >= 2
    /\ posts[Len(posts)].event_type = "subscription_cancelled"
    /\ posts[Len(posts)].clerk_id = "u2"

\* C10: when the page mounts for a signed-out user and localStorage holds a
\* non-empty history, the mount does not replace it by the empty history.
C10_MountKeepsSavedHistory ==
    [][(~isLoaded /\ isLoaded' /\ ~isSignedIn'
          /\ localStorage # <<>> /\ Len(JSONparseHistory(localStorage[1])) > 0)
       => localStorage' # <<JSONstringify(<<>>)>>]_vars

\* ------------------------------------------------------ the Upgrade buttons
\* the Sidebar's Upgrade button, part_008:238-257: a child of <SignedIn>
SidebarUpgradeVisible == isLoaded /\ isSignedIn

\* the generator's Upgrade button, AnimationGenerator.tsx:405 and :441-449;
\* HomeContent always passes onUpgradeClick
GeneratorUpgradeVisible ==
    /\ usage # <<>> /\ isSignedIn
    /\ usage[1].tier = "free" /\ usage[1].basic_credits = 0

\* C11: for a signed-in user whose usage is known, each Upgrade button is
\* shown exactly when the tier is not 'pro'.
C11_UpgradeShownUnlessPro ==
    (isSignedIn /\ usage # <<>>)
       => /\ SidebarUpgradeVisible <=> usage[1].tier # "pro"
          /\ GeneratorUpgradeVisible <=> usage[1].tier # "pro"

\* ------------------------------------------------------------------ AdSense
\* props a parent may pass: basicCredits is <<>> when it is left out
AdTiers == {"free", "basic", "pro"}
AdCredits == {<<>>, <<0>>, <<1>>}

\* the default value of the basicCredits parameter, AdSense.tsx:14 and :57
basicCreditsOf(props) ==
    IF props.basicCredits = <<>> THEN 0 ELSE props.basicCredits[1]

\* shouldShowAds looking at the tier only
shouldShowAds_tierOnly(props) == props.userTier = "free"

\* shouldShowAds, AdSense.tsx:16 and :58
shouldShowAds(props) ==
    props.userTier = "free" /\ basicCreditsOf(props) = 0

\* document.querySelector('script[src*="pagead2.googlesyndication.com"]')
scriptLoaded == adScripts > 0

\* the effect runs on mount and when shouldShowAds changed, :37 and :69
effectRuns(mounted, props) ==
    mounted = <<>> \/ shouldShowAds(mounted[1]) # shouldShowAds(props)

\* AdSense is rendered with these props: the effect, AdSense.tsx:18-37
AdSenseRender(tier, credits) ==
    LET props == [userTier |-> tier, basicCredits |-> credits]
    IN  /\ adSense # <<props>>
        /\ adSense' = <<props>>
        /\ adScripts' = IF effectRuns(adSense, props) /\ shouldShowAds(props)
                           /\ ~scriptLoaded
                        THEN adScripts + 1
                        ELSE adScripts
        /\ UNCHANGED <<adBanner, adPushes, clerkVars, formVars, usageVars,
                       resultVars, gens, pageVars, pendingDeletes, stepVars,
                       hookVars, payVars>>

\* AdSense is unmounted: the cleanup leaves the script in place, :33-36
AdSenseUnmount ==
    /\ adSense # <<>>
    /\ adSense' = <<>>
    /\ UNCHANGED <<adBanner, adScripts, adPushes, clerkVars, formVars,
                   usageVars, resultVars, gens, pageVars, pendingDeletes,
                   stepVars, hookVars, payVars>>

\* what AdSense returns, AdSense.tsx:39-50
AdSenseOutput ==
    IF adSense = <<>> THEN "unmounted"
    ELSE IF ~shouldShowAds(adSense[1]) THEN "null" ELSE "fragment"

\* AdBanner is rendered with these props: the effect, AdSense.tsx:60-69
AdBannerRender(tier, credits) ==
    LET props == [userTier |-> tier, basicCredits |-> credits]
        pushes == effectRuns(adBanner, props) /\ shouldShowAds(props)
    IN  /\ adBanner # <<props>>
        /\ pushes => adPushes < MaxAdPushes
        /\ adBanner' = <<props>>
        /\ adPushes' = IF pushes THEN adPushes + 1 ELSE adPushes
        /\ UNCHANGED <<adSense, adScripts, clerkVars, formVars, usageVars,
                       resultVars, gens, pageVars, pendingDeletes, stepVars,
                       hookVars, payVars>>

AdBannerUnmount ==
    /\ adBanner # <<>>
    /\ adBanner' = <<>>
    /\ UNCHANGED <<adSense, adScripts, adPushes, clerkVars, formVars,
                   usageVars, resultVars, gens, pageVars, pendingDeletes,
                   stepVars, hookVars, payVars>>

\* what AdBanner returns, AdSense.tsx:71-86
AdBannerOutput ==
    IF adBanner = <<>> THEN "unmounted"
    ELSE IF ~shouldShowAds(adBanner[1]) THEN "null" ELSE "ins"

\* The two ad components under a parent that changes their props.
NextAds ==
    \/ \E tier \in AdTiers, credits \in AdCredits : AdSenseRender(tier, credits)
    \/ AdSenseUnmount
    \/ \E tier \in AdTiers, credits \in AdCredits : AdBannerRender(tier, credits)
    \/ AdBannerUnmount
    \/ Remount

SpecAds == Init /\ [][NextAds]_vars

\* the props are those of a Pro user or of a user holding basic credits
Paying(props) == props.userTier = "pro" \/ basicCreditsOf(props) > 0

\* C12: a step appends the AdSense script only if AdSense is then rendered
\* for userTier 'free' with no basic credits; the document never holds more
\* than one such script; AdSense and AdBanner return null for a user who is
\* Pro or holds basic credits.
C12_AdsOnlyForFreeTier ==
    /\ [][adScripts' > adScripts
            => /\ adSense' # <<>>
               /\ adSense'[1].userTier = "free"
               /\ basicCreditsOf(adSense'[1]) = 0]_vars
    /\ [](adScripts <= 1)
    /\ []((adSense # <<>> /\ Paying(adSense[1])) => AdSenseOutput = "null")
    /\ []((adBanner # <<>> /\ Paying(adBanner[1])) => AdBannerOutput = "null")

\* C12 witness: the script was appended once, AdSense is now rendered for a
\* free user who holds a credit and AdBanner for a Pro user; both return null.
C12_Witness ==
    /\ adScripts = 1
    /\ adSense # <<>> /\ adSense[1].userTier = "free" /\ basicCreditsOf(adSense[1]) = 1
    /\ adBanner # <<>> /\ adBanner[1].userTier = "pro"
    /\ AdSenseOutput = "null" /\ AdBannerOutput = "null"

\* the text on the wire read as one chunk, and read as the first k characters
\* followed by the rest
ReadAtOnce(g) ==
    readChunk(gens[g].buffer, LoopState(g), gens[g].wire, gens[g].body[1].prompt)

ReadInTwo(g, k) ==
    LET first == readChunk(gens[g].buffer, LoopState(g),
                           SubSeq(gens[g].wire, 1, k), gens[g].body[1].prompt)
    IN  readChunk(first.buffer, first.st,
                  SubSeq(gens[g].wire, k + 1, Len(gens[g].wire)),
                  gens[g].body[1].prompt)

\* C13: whatever was read before, reading the text on the wire in two chunks
\* cut at any place handles the same events in the same order and leaves the
\* same state and the same unfinished line as reading it in one chunk, and
\* the events handled are the next ones the server wrote, each once.
C13_ChunkingDoesNotMatter ==
    \A g \in Slots :
       gens[g].pc = "reading" =>
          /\ \A k \in 1..Len(gens[g].wire) :
                /\ ReadInTwo(g, k).st = ReadAtOnce(g).st
                /\ ~ReadAtOnce(g).st.returned
                      => ReadInTwo(g, k).buffer = ReadAtOnce(g).buffer
          /\ LET seen == ReadAtOnce(g).st.seen
             IN  IsPrefix([i \in 1..Len(seen) |-> seen[i].event], gens[g].inflight)

\* C13 witness: a read handled an event and stopped inside the next line,
\* whose beginning waits in the buffer while its end is still on the wire.
C13_Witness ==
    /\ gens[1].pc = "reading"
    /\ applied.g = 1 /\ applied.events # <<>>
    /\ gens[1].buffer = <<DataPrefix>>
    /\ Len(gens[1].wire) >= 2
    /\ gens[1].wire[1] \in EventNames

\* invocation g takes the path after its read loop in this step
StreamEnds(g) ==
    /\ gens[g].pc = "reading" /\ gens[g].closed /\ gens[g].wire = <<>>
    /\ applied'.g = g

\* the state the generator would be left in had the text in the buffer been
\* followed by a newline before the stream ended: the loop handles the line,
\* and unless it returns there the stream end follows
TerminatedEffect(g) ==
    LET st == processLine(gens[g].buffer, LoopState(g), gens[g].body[1].prompt)
    IN  IF st.returned THEN st ELSE streamEnd(st)

\* C14: when the stream ends with a parsable 'data: ' line in the buffer,
\* videoUrl, code, error, currentProgress and the history end up as they
\* would have, had that line been terminated by a newline.
C14_TailLikeTerminatedLine ==
    [][\A g \in Slots :
          (StreamEnds(g) /\ startsWithData(gens[g].buffer)
                         /\ JSONparse(slice6(gens[g].buffer)) # <<>>)
          => /\ videoUrl' = TerminatedEffect(g).videoUrl
             /\ code' = TerminatedEffect(g).code
             /\ error' = TerminatedEffect(g).error
             /\ currentProgress' = TerminatedEffect(g).currentProgress
             /\ history' = TerminatedEffect(g).history]_vars

\* a 'complete' event with video_url and code was handled by invocation g
\* before this step or is handled in it
CompletedBy(g) ==
    \/ gens[g].completed
    \/ \E i \in 1..Len(applied'.events) : FullComplete(applied'.events[i].event)

\* C15: when the stream ends, loading becomes false; if no 'complete' event
\* with video_url and code was handled, videoUrl is null and error is
\* 'Generation ended unexpectedly. Please try again.'; if one was handled,
\* error is null.
C15_StreamEndOutcome ==
    [][\A g \in Slots :
          StreamEnds(g)
          => /\ loading' = FALSE
             /\ IF CompletedBy(g)
                THEN error' = "null"
                ELSE /\ error' = "Generation ended unexpectedly. Please try again."
                     /\ videoUrl' = "null"]_vars

\* C15 witness: a stream ended after a progress event and without a
\* 'complete' event: the error is shown, loading is off, there is no video.
C15_Witness ==
    /\ applied.g = 1 /\ gens[1].pc = "idle"
    /\ currentProgress # <<>> /\ currentProgress[1].status # "complete"
    /\ error = "Generation ended unexpectedly. Please try again."
    /\ ~loading /\ videoUrl = "null"

\* ----------------------------------------------- generations that terminate
\* One generation after another where the server's answer arrives, the
\* stream ends and the awaiting code is resumed.
LiveEvents == {"progress_url", "complete_id", "error_nomsg"}

NextLive ==
    \/ ClerkLoaded(TRUE)
    \/ TypePrompt("a")
    \/ PressEnter
    \/ \E g \in Slots :
         \/ ResponseNotOk(g, 500, "d")
         \/ FetchRejects(g)
         \/ ResponseNoBody(g)
         \/ ResponseOk(g)
         \/ \E name \in LiveEvents : ServerEmit(g, name)
         \/ ServerEnd(g, <<>>)
         \/ \E k \in 1..Len(gens[g].wire) : Read(g, k)
         \/ ReadDone(g)
         \/ ReadRejects(g)

\* the response to the POST arrives, whatever it is
Responds == \E g \in Slots : \/ ResponseNotOk(g, 500, "d")
                             \/ FetchRejects(g)
                             \/ ResponseNoBody(g)
                             \/ ResponseOk(g)

\* reader.read() settles
ReadSettles == \E g \in Slots : \/ \E k \in 1..Len(gens[g].wire) : Read(g, k)
                                \/ ReadDone(g)
                                \/ ReadRejects(g)

SpecLive ==
    /\ Init /\ [][NextLive]_vars
    /\ WF_vars(Responds)
    /\ WF_vars(\E g \in Slots : ServerEnd(g, <<>>))
    /\ WF_vars(ReadSettles)

\* C16: whenever loading is true it becomes false again, given that the
\* response arrives, the stream ends and the pending reads settle.
C16_LoadingIsCleared == loading ~> ~loading

\* C16 witness: a generation ran to the end of its stream after a 'complete'
\* event; loading is false again.
C16_Witness ==
    /\ applied.g = 1 /\ gens[1].pc = "idle"
    /\ videoUrl # "null"
    /\ ~loading

\* C17: when the response to the POST is not OK, error becomes 'Please sign
\* in to generate videos' for status 401 and otherwise the response's detail,
\* or 'Failed to start generation' when there is none; loading becomes
\* false, videoUrl and code are still null, the invocation returns without
\* reading a stream, and the history and currentChat are left alone.
C17_NonOkResponseOnlySetsError ==
    [][\A g \in Slots :
          (gens[g].pc = "fetch" /\ applied'.response # <<>>)
          => /\ error' = IF applied'.response[1].status = 401
                         THEN "Please sign in to generate videos"
                         ELSE IF applied'.response[1].detail \in {"undefined", ""}
                              THEN "Failed to start generation"
                              ELSE applied'.response[1].detail
             /\ loading' = FALSE
             /\ videoUrl' = "null" /\ code' = "null"
             /\ gens'[g].pc = "idle"
             /\ applied'.events = <<>>
             /\ history' = history /\ currentChat' = currentChat
             /\ currentProgress' = currentProgress]_vars

\* C17 witness: a 401 response that carries a detail; the sign-in text is
\* shown, loading is off and there is no video.
C17_Witness ==
    /\ applied.response # <<>>
    /\ applied.response[1].status = 401 /\ applied.response[1].detail = "d"
    /\ error = "Please sign in to generate videos"
    /\ ~loading /\ videoUrl = "null" /\ code = "null"
    /\ gens[1].pc = "idle"

\* a 'data: ' line whose payload is not valid JSON, with its newline
MalformedLine == <<DataPrefix, "{", NL>>

\* the text invocation g has still to handle: its buffer and the wire
PendingText(g) == gens[g].buffer \o gens[g].wire

\* the places of a text where a line starts
LineStarts(text) ==
    {p \in 1..(Len(text) + 1) : p = 1 \/ text[p - 1] = NL}

\* the text with a malformed line put in at place p
WithMalformedAt(text, p) ==
    SubSeq(text, 1, p - 1) \o MalformedLine \o SubSeq(text, p, Len(text))

\* C18: whatever was read before, a malformed 'data: ' line put in front of
\* any line of the text still to handle changes nothing: the events handled,
\* the state left and the unfinished line are those of the text without it.
C18_MalformedLineIsSkipped ==
    \A g \in Slots :
       gens[g].pc = "reading" =>
          \A p \in LineStarts(PendingText(g)) :
             LET with == readChunk(<<>>, LoopState(g),
                                   WithMalformedAt(PendingText(g), p),
                                   gens[g].body[1].prompt)
                 without == readChunk(<<>>, LoopState(g), PendingText(g),
                                      gens[g].body[1].prompt)
             IN  /\ with.st = without.st
                 /\ ~without.st.returned => with.buffer = without.buffer

\* C18 witness: the wire holds a malformed line followed by a 'complete'
\* event that the read loop has yet to handle.
C18_Witness ==
    /\ gens[1].pc = "reading"
    /\ gens[1].buffer = <<>>
    /\ gens[1].wire = MalformedLine \o EncodeEvent("complete_id") \o <<NL>>
    /\ ~gens[1].completed

\* handleGenerate is called in this step
Submits == lastClick' \in {"Enter", "Generate"}

\* C19: handleGenerate called while the prompt is empty or a blank sends no
\* request, starts no invocation and leaves loading, videoUrl, code, error
\* and currentProgress as they were.
C19_BlankPromptDoesNothing ==
    [][(Submits /\ prompt \in {"", " "})
          => /\ \A g \in Slots : ~Posted(g)
             /\ gens' = gens
             /\ UNCHANGED <<loading, videoUrl, code, error, currentProgress>>]_vars

\* C19 witness: the Generate button was clicked with a blank prompt after a
\* failed generation; the earlier error is still shown and nothing started.
C19_Witness ==
    /\ lastClick = "Generate"
    /\ prompt = " "
    /\ error = "Please sign in to generate videos"
    /\ ~loading
    /\ gens[1].pc = "idle"

\* The history of a signed-in user over several generations.
NextHistory ==
    \/ ClerkLoaded(TRUE)
    \/ \E chats \in ServerChats : HistoryResponse(chats)
    \/ \E p \in {"a", "b"} : TypePrompt(p)
    \/ PressEnter
    \/ \E g \in Slots :
         \/ ResponseOk(g)
         \/ \E name \in {"complete_id", "complete_noid"} : ServerEmit(g, name)
         \/ ServerEnd(g, <<>>)
         \/ \E k \in {Len(gens[g].wire)} : Read(g, k)
         \/ ReadDone(g)

SpecHistory == Init /\ [][NextHistory]_vars

\* the ids of the items of h are pairwise distinct
DistinctIds(h) ==
    \A i, j \in 1..Len(h) : h[i].id = h[j].id => i = j

\* the step handled exactly one 'complete' event carrying video_url and code
CompletesOnce ==
    /\ applied'.g # 0
    /\ Cardinality({i \in 1..Len(applied'.events) :
                        FullComplete(applied'.events[i].event)}) = 1

\* C20: a step that hands one new item to handleGenerateComplete makes it
\* currentChat; if the history holds an item with its id, that item is
\* replaced where it stands and the length stays, otherwise the new item is
\* put in front and the length grows by one; pairwise distinct ids stay
\* pairwise distinct.
C20_CompleteIsUpsert ==
    [][CompletesOnce =>
         /\ currentChat' # <<>>
         /\ LET newItem == currentChat'[1]
                data == applied'.events[
                           CHOOSE i \in 1..Len(applied'.events) :
                              FullComplete(applied'.events[i].event)].event
            IN  /\ newItem.videoUrl = data.video_url
                /\ newItem.code = data.code
                /\ Truthy(data.chat_id) => newItem.id = data.chat_id
                /\ IF \E k \in 1..Len(history) : history[k].id = newItem.id
                   THEN /\ Len(history') = Len(history)
                        /\ \E k \in 1..Len(history) :
                              /\ history[k].id = newItem.id
                              /\ history' = [history EXCEPT ![k] = newItem]
                   ELSE /\ Len(history') = Len(history) + 1
                        /\ history' = <<newItem>> \o history
         /\ DistinctIds(history) => DistinctIds(history')]_vars

\* C20 witness: a generation for prompt "b" completed with the id of the
\* second of two items; that item now carries "b" and is currentChat, and
\* the first item is still in front.
C20_Witness ==
    /\ applied.g # 0
    /\ \E i \in 1..Len(applied.events) :
          FullComplete(applied.events[i].event)
             /\ applied.events[i].event.chat_id = "c1"
    /\ Len(history) = 2
    /\ history[1].id # "c1"
    /\ history[2].id = "c1"
    /\ history[2].prompt = "b"
    /\ history[1].prompt = "a"
    /\ currentChat = <<history[2]>>

\* ------------------------------------------------------ deleting history
\* a chat as the backend returns it (lib/api Chat, part_009:9-16)
StoredChat(id) ==
    [id |-> id, prompt |-> "a", length |-> "Medium (15s)",
     video_url |-> "v", code |-> "k", created_at |-> "t"]

\* the chats of a user who has three
ThreeChats == <<StoredChat("c1"), StoredChat("c2"), StoredChat("c3")>>

\* A user, signed in or out, who selects and deletes chats of the history.
NextDelete ==
    \/ \E si \in BOOLEAN : ClerkLoaded(si)
    \/ SignOut
    \/ HistoryResponse(ThreeChats)
    \/ \E i \in 1..Len(history) : onSelect(i)
    \/ \E i \in 1..Len(history) : handleDelete(history[i].id)
    \/ \E ok \in BOOLEAN : deleteChatSettles(ok)

SpecDelete == Init /\ [][NextDelete]_vars

\* C21: when handleDelete(id) finishes, whether deleteChat resolved, threw or
\* was not called, the history is the one before without the items of that
\* id, the others in their order, and currentChat is null if the chat shown
\* when the deletion was requested had that id.
C21_LocalDeletionAlwaysHappens ==
    [][applied'.delete # <<>> =>
         LET d == applied'.delete[1]
         IN  /\ \A i \in 1..Len(history') : history'[i].id # d.id
             /\ history' = SelectSeq(history, LAMBDA item : item.id # d.id)
             /\ (d.currentChat # <<>> /\ d.currentChat[1].id = d.id)
                   => currentChat' = <<>>]_vars

\* C21 witness: the DELETE for the second of three chats, the one shown, was
\* rejected; the first and the third are left in that order and no chat is
\* shown.
C21_Witness ==
    /\ applied.delete # <<>>
    /\ applied.delete[1].outcome = "rejected"
    /\ applied.delete[1].id = "c2"
    /\ applied.delete[1].currentChat # <<>>
    /\ applied.delete[1].currentChat[1].id = "c2"
    /\ Len(history) = 2
    /\ history[1].id = "c1"
    /\ history[2].id = "c3"
    /\ currentChat = <<>>

\* ------------------------------------------------- a failing history fetch
\* the step is the end of a fetchHistory whose GET failed
FetchFailed == applied'.fetch # <<>> /\ applied'.fetch[1] # "ok"

\* C22: when the GET of a signed-in user's chats fails, the history becomes
\* what localStorage holds under 'animation_history' (and stays as it is when
\* nothing is saved), and isLoadingHistory becomes false.
C22_FetchFailureFallsBackToSaved ==
    [][(FetchFailed /\ isSignedIn)
          => /\ history' = loadSaved
             /\ isLoadingHistory' = FALSE]_vars

\* ------------------------------------------------- the payment return page
\* A user who chooses plans, comes back from the checkout and signs in and out.
NextReturn ==
    \/ \E si \in BOOLEAN : ClerkLoaded(si)
    \/ SignIn
    \/ SignOut
    \/ \E name \in PlanNames : ChoosePlan(name)
    \/ \E params \in ReturnParams : ReturnFromCheckout(params)
    \/ Remount
    \/ PaymentTimerFires
    \/ \E ok \in BOOLEAN : UsageResponse(ok, [tier |-> "free", basic_credits |-> 0])

SpecReturn == Init /\ [][NextReturn]_vars

\* the step runs the payment effect for a signed-in user on a URL that
\* carries status=succeeded and a payment_id
ReturnSeen ==
    /\ paymentReturned(UserId)
    /\ isLoaded' /\ isSignedIn'
    /\ ~(isLoaded /\ isSignedIn)

\* C23: the page's steps send nothing to /webhook/payment and change no
\* user's credits or tier; the step that sees a succeeded payment in the URL
\* of a signed-in user shows the toast, adds one to usageRefreshTrigger and
\* starts a timer, and the timer's firing hides the toast and clears the URL.
C23_ReturnPageGrantsNothing ==
    /\ [][/\ posts' = posts
          /\ users' = users
          /\ ReturnSeen => /\ paymentSuccess'
                           /\ usageRefreshTrigger' = usageRefreshTrigger + 1
                           /\ timers' = timers + 1
                           /\ searchParams' = searchParams
          /\ timers' < timers /\ isLoaded'
                => ~paymentSuccess' /\ searchParams' = <<>>]_vars
    /\ [](timers = 0 => ~paymentSuccess)

\* C23 witness: a signed-in user is back from the checkout with a succeeded
\* payment in the URL; the toast is up, the refresh trigger is 1, the timer
\* is pending and nothing was posted.
C23_Witness ==
    /\ isLoaded /\ isSignedIn
    /\ paymentReturned(UserId)
    /\ paymentSuccess
    /\ paymentMessage = "Pro subscription activated!"
    /\ usageRefreshTrigger = 1
    /\ timers = 1
    /\ posts = <<>>

\* ------------------------------------------------ a failing backend POST
\* the step settles a notifyBackend whose POST failed
PostFailed == lastAnswer' # <<>> /\ lastAnswer'[1].outcome # "ok"

\* C24: when the POST of notifyBackend throws or its body cannot be parsed,
\* notifyBackend returns undefined, the handler that awaited it resolves, no
\* POST is sent in its place and no user's credits or tier change.
C24_FailedPostIsSwallowed ==
    [][PostFailed =>
         /\ lastAnswer'[1].returned = "undefined"
         /\ lastAnswer'[1].handler = "resolved"
         /\ \E i \in 1..Len(posts) :
               /\ posts[i] = lastAnswer'[1].post
               /\ posts' = RemoveAt(posts, i)
         /\ users' = users
         /\ delivered' = delivered]_vars

\* C24 witness: the only POST, for a succeeded payment of u1, came back with
\* a body that is no JSON; the handler resolved, nothing is in flight and u1
\* has no credits.
C24_Witness ==
    /\ lastAnswer # <<>>
    /\ lastAnswer[1].outcome = "unparsable body"
    /\ lastAnswer[1].post.event_type = "payment_succeeded"
    /\ lastAnswer[1].post.clerk_id = "u1"
    /\ lastAnswer[1].handler = "resolved"
    /\ posts = <<>>
    /\ delivered = 1
    /\ users["u1"].basic_credits = 0

=============================================================================
